---- MODULE Spec2Model ----
(***************************************************************************)
(* Model of the quantum error-correcting-code components                   *)
(* (Five_Qubit_QECC, Shor_QECC) and of the Monte Carlo harness             *)
(* test_QECC_random_Pauli_errors.                                          *)
(*                                                                         *)
(* Circuits are sequences of instruction records, built by the same calls  *)
(* the builders make.  A state vector is a function from the computational *)
(* basis states in its support to Gaussian-integer amplitudes; it is kept  *)
(* up to a positive real factor (the source normalises), the global phase  *)
(* is retained.  A basis state is a function from qubit index to bit.      *)
(***************************************************************************)
EXTENDS Integers, Sequences, FiniteSets, TLC

(***************************************************************************)
(* Amplitudes: Gaussian integers <<re, im>>.                               *)
(***************************************************************************)
CZero == <<0, 0>>

COne == <<1, 0>>

CAdd(a, b) == <<a[1] + b[1], a[2] + b[2]>>

CNeg(a) == <<0 - a[1], 0 - a[2]>>

CSub(a, b) == CAdd(a, CNeg(b))

\* multiplication by the imaginary unit
CMulI(a) == <<0 - a[2], a[1]>>

\* a * conj(b)
CMulConj(a, b) == <<a[1] * b[1] + a[2] * b[2], a[2] * b[1] - a[1] * b[2]>>

CEven(a) == a[1] % 2 = 0 /\ a[2] % 2 = 0

CHalf(a) == <<a[1] \div 2, a[2] \div 2>>

\* a multiplied by i^k
RECURSIVE CPhase(_, _)
CPhase(a, k) == IF k = 0 THEN a ELSE CPhase(CMulI(a), k - 1)

RECURSIVE Pow2(_)
Pow2(k) == IF k = 0 THEN 1 ELSE 2 * Pow2(k - 1)

(***************************************************************************)
(* State vectors.                                                          *)
(***************************************************************************)
Amp(psi, b) == IF b \in DOMAIN psi THEN psi[b] ELSE CZero

Flip(b, q) == [b EXCEPT ![q] = 1 - b[q]]

\* the canonical representative of the ray: common factors of two removed
RECURSIVE Reduce(_)
Reduce(psi) ==
    IF DOMAIN psi # {} /\ \A b \in DOMAIN psi : CEven(psi[b])
    THEN Reduce([b \in DOMAIN psi |-> CHalf(psi[b])])
    ELSE psi

ZeroState(N) == [b \in {[q \in 0 .. N - 1 |-> 0]} |-> COne]

GateX(psi, q) ==
    LET D == {Flip(b, q) : b \in DOMAIN psi}
    IN  [b \in D |-> psi[Flip(b, q)]]

GateZ(psi, q) ==
    [b \in DOMAIN psi |-> IF b[q] = 1 THEN CNeg(psi[b]) ELSE psi[b]]

\* Y|0> = i|1>, Y|1> = -i|0>
GateY(psi, q) ==
    LET D == {Flip(b, q) : b \in DOMAIN psi}
    IN  [b \in D |-> IF b[q] = 1 THEN CMulI(psi[Flip(b, q)])
                                 ELSE CNeg(CMulI(psi[Flip(b, q)]))]

GateH(psi, q) ==
    LET C == {[b EXCEPT ![q] = 0] : b \in DOMAIN psi}
        plus(c) == CAdd(Amp(psi, c), Amp(psi, [c EXCEPT ![q] = 1]))
        minus(c) == CSub(Amp(psi, c), Amp(psi, [c EXCEPT ![q] = 1]))
        D0 == {c \in C : plus(c) # CZero}
        D1 == {[c EXCEPT ![q] = 1] : c \in {d \in C : minus(d) # CZero}}
    IN  Reduce([b \in D0 \cup D1 |->
                  IF b[q] = 0 THEN plus(b) ELSE minus([b EXCEPT ![q] = 0])])

GateCX(psi, c, t) ==
    LET to(b) == IF b[c] = 1 THEN Flip(b, t) ELSE b
        D == {to(b) : b \in DOMAIN psi}
    IN  [b \in D |-> psi[to(b)]]

GateCZ(psi, c, t) ==
    [b \in DOMAIN psi |-> IF b[c] = 1 /\ b[t] = 1 THEN CNeg(psi[b]) ELSE psi[b]]

\* projective measurement of qubit q with outcome v
Project(psi, q, v) ==
    LET D == {b \in DOMAIN psi : b[q] = v}
    IN  Reduce([b \in D |-> psi[b]])

Outcomes(psi, q) == {b[q] : b \in DOMAIN psi}

(***************************************************************************)
(* Circuits: sequences of instruction records.  q and c are the qubit and  *)
(* classical-bit indices an instruction acts on; body is the definition of *)
(* a composite gate or the block of an if_test; cond is the if_test        *)
(* condition; amps is the amplitude vector of a StatePreparation.          *)
(***************************************************************************)
NoCond == [kind |-> "none", bits |-> <<>>, val |-> 0]

Ins(name, q, c) ==
    [name |-> name, q |-> q, c |-> c, body |-> <<>>, cond |-> NoCond,
     amps |-> <<>>, inv |-> FALSE]

\* QuantumCircuit.h / x / y / z / id on a list of qubits: one gate per qubit
Each(name, qubits) == [i \in 1 .. Len(qubits) |-> Ins(name, <<qubits[i]>>, <<>>)]

\* QuantumCircuit.measure(qubits, clbits): one measurement per pair
MeasureEach(qubits, clbits) ==
    [i \in 1 .. Len(qubits) |-> Ins("measure", <<qubits[i]>>, <<clbits[i]>>)]

\* QuantumCircuit.to_gate(): the circuit as one instruction on its qubits
ToGate(name, nq, data) ==
    [Ins(name, [i \in 1 .. nq |-> i - 1], <<>>) EXCEPT !.body = data]

\* with qc.if_test((register, value)): block
IfRegister(bits, val, block) ==
    [Ins("if_else", <<>>, bits) EXCEPT
        !.cond = [kind |-> "register", bits |-> bits, val |-> val],
        !.body = block]

\* with qc.if_test((clbit, value)): block
IfBit(bit, val, block) ==
    [Ins("if_else", <<>>, <<bit>>) EXCEPT
        !.cond = [kind |-> "bit", bits |-> <<bit>>, val |-> val],
        !.body = block]

\* a register of the given size placed after `offset` earlier bits
Register(offset, size) == [i \in 1 .. size |-> offset + i - 1]

RECURSIVE Concat(_)
Concat(seqs) == IF seqs = <<>> THEN <<>> ELSE Head(seqs) \o Concat(Tail(seqs))

Reverse(s) == [i \in 1 .. Len(s) |-> s[Len(s) + 1 - i]]

\* Gate.inverse(): the definition reversed, each gate inverted; h, x, y, z,
\* cx, cz are their own inverses
RECURSIVE Inverse(_)
Inverse(ins) ==
    IF ins.name = "state_preparation" THEN [ins EXCEPT !.inv = ~ins.inv]
    ELSE IF ins.body = <<>> THEN ins
    ELSE [ins EXCEPT !.body =
            [i \in 1 .. Len(ins.body) |-> Inverse(ins.body[Len(ins.body) + 1 - i])]]

(***************************************************************************)
(* Bit strings are sequences of the characters "0" and "1".                *)
(***************************************************************************)
Str(digits) == [i \in 1 .. Len(digits) |-> IF digits[i] = 1 THEN "1" ELSE "0"]

\* int(c, 2)
RECURSIVE Int2(_)
Int2(c) ==
    IF c = <<>> THEN 0
    ELSE 2 * Int2(SubSeq(c, 1, Len(c) - 1)) + (IF c[Len(c)] = "1" THEN 1 ELSE 0)

(***************************************************************************)
(* class Five_Qubit_QECC                                                   *)
(***************************************************************************)
Five_Qubit_QECC ==
    [cls |-> "Five_Qubit_QECC",
     num_physical_qubits |-> 5,
     num_syndromes |-> 4,
     logical0_coef_pos |->
        << Str(<<0,0,0,0,0>>), Str(<<0,0,1,0,1>>), Str(<<0,1,0,1,0>>),
           Str(<<1,0,1,0,0>>), Str(<<0,1,0,0,1>>), Str(<<1,0,0,1,0>>) >>,
     logical0_coef_neg |->
        << Str(<<0,0,0,1,1>>), Str(<<0,0,1,1,0>>), Str(<<0,1,1,0,0>>),
           Str(<<1,1,0,0,0>>), Str(<<1,0,0,0,1>>), Str(<<0,1,1,1,1>>),
           Str(<<1,1,1,1,0>>), Str(<<1,1,1,0,1>>), Str(<<1,1,0,1,1>>),
           Str(<<1,0,1,1,1>>) >>,
     qubits_code |-> Register(0, 5),
     qubits_checks |-> Register(5, 4),
     syndromes |-> Register(0, 4)]

\* every method returns [ret |-> its result, self |-> the instance afterwards]
Five_get_logical_0_preparer(self) ==
    LET posIdx == {Int2(self.logical0_coef_pos[i]) : i \in 1 .. Len(self.logical0_coef_pos)}
        negIdx == {Int2(self.logical0_coef_neg[i]) : i \in 1 .. Len(self.logical0_coef_neg)}
        \* amplitudes in units of 1/4; the later assignment wins
        logical0_coefficients ==
            [k \in 0 .. Pow2(5) - 1 |->
                IF k \in negIdx THEN 0 - 1 ELSE IF k \in posIdx THEN 1 ELSE 0]
    IN  [ret |-> [Ins("state_preparation", Register(0, 5), <<>>) EXCEPT
                    !.amps = logical0_coefficients],
         self |-> self]

Five_get_logical_X(self) ==
    [ret |-> ToGate("5-Qubit Logical X", 5, Each("x", self.qubits_code)),
     self |-> self]

\* faulty variant: every check built as X X Z Z
Five_get_error_checker_XXZZ(self) ==
    LET code == self.qubits_code
        checks == self.qubits_checks
        round(i) ==
            << Ins("cx", <<checks[i + 1], code[(i % 5) + 1]>>, <<>>),
               Ins("cx", <<checks[i + 1], code[((i + 1) % 5) + 1]>>, <<>>),
               Ins("cz", <<checks[i + 1], code[((i + 2) % 5) + 1]>>, <<>>),
               Ins("cz", <<checks[i + 1], code[((i + 3) % 5) + 1]>>, <<>> ) >>
    IN  [ret |-> ToGate("5-Qubit Error Checker", 9,
                    Each("h", checks)
                    \o Concat([i \in 1 .. 4 |-> round(i - 1)])
                    \o Each("h", checks)),
         self |-> self]

Five_get_error_checker(self) ==
    LET code == self.qubits_code
        checks == self.qubits_checks
        round(i) ==
            << Ins("cx", <<checks[i + 1], code[(i % 5) + 1]>>, <<>>),
               Ins("cz", <<checks[i + 1], code[((i + 1) % 5) + 1]>>, <<>>),
               Ins("cz", <<checks[i + 1], code[((i + 2) % 5) + 1]>>, <<>>),
               Ins("cx", <<checks[i + 1], code[((i + 3) % 5) + 1]>>, <<>> ) >>
    IN  [ret |-> ToGate("5-Qubit Error Checker", 9,
                    Each("h", checks)
                    \o Concat([i \in 1 .. 4 |-> round(i - 1)])
                    \o Each("h", checks)),
         self |-> self]

\* faulty variant: the fifth bit of the sum is kept
Five_syndrome_X_Untruncated(j) == Pow2((j - 1) % 5) + Pow2((j - 2) % 5)

\* faulty variant: the second term taken from the neighbouring check
Five_syndrome_Z_Adjacent(j) == (Pow2(j % 5) + Pow2((j - 1) % 5)) % Pow2(4)

\* the syndrome integers of get_error_corrector, for qubit j
Five_syndrome_X(j) == (Pow2((j - 1) % 5) + Pow2((j - 2) % 5)) % Pow2(4)

Five_syndrome_Z(j) == (Pow2(j % 5) + Pow2((j - 3) % 5)) % Pow2(4)

Five_syndrome_Y(j) == (31 - Pow2((j - 4) % 5)) % Pow2(4)

Five_get_error_corrector(self) ==
    LET code == self.qubits_code
        fix(name, j, val) ==
            IfRegister(self.syndromes, val, <<Ins(name, <<code[j + 1]>>, <<>>)>>)
    IN  [ret |->
            <<Five_get_error_checker(self).ret>>
            \o <<Ins("barrier", <<>>, <<>>)>>
            \o MeasureEach(self.qubits_checks, self.syndromes)
            \o <<Ins("barrier", <<>>, <<>>)>>
            \o [j \in 1 .. 5 |-> fix("x", j - 1, Five_syndrome_X(j - 1))]
            \o [j \in 1 .. 5 |-> fix("z", j - 1, Five_syndrome_Z(j - 1))]
            \o [j \in 1 .. 5 |-> fix("y", j - 1, Five_syndrome_Y(j - 1))],
         self |-> Five_get_error_checker(self).self]

\* faulty variant: the positive list is extended in place
Five_get_logical_0_components_InPlace(self) ==
    [ret |-> self.logical0_coef_pos \o self.logical0_coef_neg,
     self |-> [self EXCEPT !.logical0_coef_pos =
                              self.logical0_coef_pos \o self.logical0_coef_neg]]

Five_get_logical_0_components(self) ==
    [ret |-> self.logical0_coef_pos \o self.logical0_coef_neg,
     self |-> self]

(***************************************************************************)
(* class Shor_QECC                                                         *)
(***************************************************************************)
Shor_QECC ==
    [cls |-> "Shor_QECC",
     num_physical_qubits |-> 9,
     num_syndromes |-> 8,
     qubits_code |-> Register(0, 9),
     qubits_checks |-> Register(9, 8),
     syndromes |-> Register(0, 8)]

Shor_get_logical_0_preparer(self) ==
    LET code == self.qubits_code
        block(i) ==
            << Ins("cx", <<code[3 * i + 1], code[3 * i + 2]>>, <<>>),
               Ins("cx", <<code[3 * i + 1], code[3 * i + 3]>>, <<>>) >>
    IN  [ret |-> ToGate("Shor Logical 0 Preparation", 9,
                    << Ins("cx", <<code[1], code[4]>>, <<>>),
                       Ins("cx", <<code[1], code[7]>>, <<>>) >>
                    \o Each("h", <<code[1], code[4], code[7]>>)
                    \o Concat([i \in 1 .. 3 |-> block(i - 1)])),
         self |-> self]

Shor_get_logical_X(self) ==
    [ret |-> ToGate("Shor Logical X", 9, Each("z", self.qubits_code)),
     self |-> self]

Shor_get_error_checker(self) ==
    LET code == self.qubits_code
        checks == self.qubits_checks
        xcheck(i) ==
            << Ins("cx", <<code[3 * i + 1], checks[2 * i + 1]>>, <<>>),
               Ins("cx", <<code[3 * i + 2], checks[2 * i + 1]>>, <<>>),
               Ins("cx", <<code[3 * i + 2], checks[2 * i + 2]>>, <<>>),
               Ins("cx", <<code[3 * i + 3], checks[2 * i + 2]>>, <<>>) >>
        zcheck(i) ==
            <<Ins("h", <<checks[i + 7]>>, <<>>)>>
            \o [j \in 1 .. 6 |->
                  Ins("cx", <<checks[i + 7], code[3 * i + (j - 1) + 1]>>, <<>>)]
            \o <<Ins("h", <<checks[i + 7]>>, <<>>)>>
    IN  [ret |-> ToGate("Shor Error Checker", 17,
                    Concat([i \in 1 .. 3 |-> xcheck(i - 1)])
                    \o Concat([i \in 1 .. 2 |-> zcheck(i - 1)])),
         self |-> self]

\* with if_test((syndromes[b1], v1)): with if_test((syndromes[b2], v2)): block
Nested(self, b1, v1, b2, v2, block) ==
    IfBit(self.syndromes[b1 + 1], v1, <<IfBit(self.syndromes[b2 + 1], v2, block)>>)

\* faulty variant: the first two syndrome patterns exchanged
Shor_correct_X_Swapped(self, i) ==
    LET code == self.qubits_code
    IN  << Nested(self, 2 * i, 1, 2 * i + 1, 1, Each("x", <<code[3 * i + 1]>>)),
           Nested(self, 2 * i, 1, 2 * i + 1, 0, Each("x", <<code[3 * i + 2]>>)),
           Nested(self, 2 * i, 0, 2 * i + 1, 1, Each("x", <<code[3 * i + 3]>>)) >>

\* the X corrections of block i
Shor_correct_X(self, i) ==
    LET code == self.qubits_code
    IN  << Nested(self, 2 * i, 1, 2 * i + 1, 0, Each("x", <<code[3 * i + 1]>>)),
           Nested(self, 2 * i, 1, 2 * i + 1, 1, Each("x", <<code[3 * i + 2]>>)),
           Nested(self, 2 * i, 0, 2 * i + 1, 1, Each("x", <<code[3 * i + 3]>>)) >>

Shor_get_error_corrector(self) ==
    LET code == self.qubits_code
        syn == self.syndromes
    IN  [ret |->
            <<Shor_get_error_checker(self).ret>>
            \o <<Ins("barrier", <<>>, <<>>)>>
            \o MeasureEach(self.qubits_checks, syn)
            \o <<Ins("barrier", <<>>, <<>>)>>
            \o << Nested(self, 6, 1, 7, 0, Each("z", SubSeq(code, 1, 3))),
                  Nested(self, 6, 1, 7, 1, Each("z", SubSeq(code, 4, 6))),
                  Nested(self, 6, 0, 7, 1, Each("z", SubSeq(code, 7, 9))) >>
            \o Concat([i \in 1 .. 3 |-> Shor_correct_X(self, i - 1)]),
         self |-> Shor_get_error_checker(self).self]

(***************************************************************************)
(* The noise model of the harness: pauli_error over X, Y, Z, I attached to *)
(* the instructions named in `instructions`.  Probabilities are integers   *)
(* in units of 1/PDen.                                                     *)
(***************************************************************************)
PDen == 30

pauli_error(prob) == [X |-> prob, Y |-> prob, Z |-> prob, I |-> PDen - 3 * prob]

\* pauli_error refuses negative probabilities (they sum to one by construction)
ValidError(err) == \A P \in DOMAIN err : err[P] >= 0

NoiseModel(prob) == [errors |-> pauli_error(prob), instructions |-> {"id"}]

NoNoise == [errors |-> [I |-> PDen], instructions |-> {}]

\* the Pauli terms the sampler can draw
Draws(nm) == {P \in DOMAIN nm.errors : nm.errors[P] > 0}

Pauli(psi, P, q) ==
    CASE P = "X" -> GateX(psi, q)
      [] P = "Y" -> GateY(psi, q)
      [] P = "Z" -> GateZ(psi, q)
      [] OTHER -> psi

(***************************************************************************)
(* StatePreparation and its inverse on the qubits qs.                      *)
(***************************************************************************)
\* index of the basis state of qubits qs within b (qs[1] least significant)
RECURSIVE IndexOf(_, _)
IndexOf(b, qs) ==
    IF qs = <<>> THEN 0 ELSE b[qs[1]] + 2 * IndexOf(b, Tail(qs))

\* b with the qubits qs set to the bits of index k
WithIndex(b, qs, k) ==
    [q \in DOMAIN b |->
        IF \E i \in 1 .. Len(qs) : qs[i] = q
        THEN LET i == CHOOSE i \in 1 .. Len(qs) : qs[i] = q
             IN  (k \div Pow2(i - 1)) % 2
        ELSE b[q]]

CScale(a, n) == <<a[1] * n, a[2] * n>>

RECURSIVE SumOver(_, _)
SumOver(S, f) ==
    IF S = {} THEN CZero
    ELSE LET x == CHOOSE x \in S : TRUE
         IN  CAdd(f[x], SumOver(S \ {x}, f))

NormSq(a) == a[1] * a[1] + a[2] * a[2]

RECURSIVE SumNat(_, _)
SumNat(S, f) ==
    IF S = {} THEN 0
    ELSE LET x == CHOOSE x \in S : TRUE
         IN  f[x] + SumNat(S \ {x}, f)

\* any computational basis state of qs: the outcome of a unitary the source
\* does not determine (the synthesis of StatePreparation off its target)
Undetermined(psi, qs, allowZero) ==
    LET ks == {k \in 0 .. Pow2(Len(qs)) - 1 : allowZero \/ k # 0}
    IN  {[c \in {WithIndex(b, qs, k)} |-> COne] : b \in DOMAIN psi, k \in ks}

\* |0..0> on qs is sent to the amplitude vector amps
Prepare(psi, qs, amps) ==
    IF \A b \in DOMAIN psi : IndexOf(b, qs) = 0
    THEN LET ks == {k \in DOMAIN amps : amps[k] # 0}
             D == {WithIndex(b, qs, k) : b \in DOMAIN psi, k \in ks}
         IN  {Reduce([c \in D |->
                 CScale(psi[WithIndex(c, qs, 0)], amps[IndexOf(c, qs)])])}
    ELSE Undetermined(psi, qs, TRUE)

\* the inverse sends amps back to |0..0>; a state orthogonal to amps goes
\* to a state orthogonal to |0..0>
Unprepare(psi, qs, amps) ==
    LET R == {WithIndex(b, qs, 0) : b \in DOMAIN psi}
        overlap ==
            [r \in R |->
                SumOver(DOMAIN amps,
                    [k \in DOMAIN amps |->
                        CScale(Amp(psi, WithIndex(r, qs, k)), amps[k])])]
        size == [r \in R |-> NormSq(overlap[r])]
        ampSq == [k \in DOMAIN amps |-> amps[k] * amps[k]]
        psiSq == [b \in DOMAIN psi |-> NormSq(psi[b])]
        R1 == {r \in R : overlap[r] # CZero}
    IN  IF SumNat(R, size) = SumNat(DOMAIN amps, ampSq) * SumNat(DOMAIN psi, psiSq)
        THEN {Reduce([r \in R1 |-> overlap[r]])}
        ELSE Undetermined(psi, qs, R1 # {})

(***************************************************************************)
(* Execution of a circuit on a machine state                               *)
(*   [psi, clbits, noise]                                                  *)
(* under a noise model.  noise logs each draw of the noise channel as      *)
(* <<top-level position, qubit, Pauli>>.  Apply and Exec return the set of *)
(* the possible results (measurement outcomes, noise draws).               *)
(***************************************************************************)
RegisterValue(clbits, bits) ==
    SumNat(1 .. Len(bits), [i \in 1 .. Len(bits) |-> clbits[bits[i]] * Pow2(i - 1)])

CondHolds(cond, clbits) ==
    IF cond.kind = "register" THEN RegisterValue(clbits, cond.bits) = cond.val
    ELSE clbits[cond.bits[1]] = cond.val

\* the body of a composite gate, placed on the gate's qubits
Placed(ins) ==
    [i \in 1 .. Len(ins.body) |->
        [ins.body[i] EXCEPT !.q = [t \in 1 .. Len(ins.body[i].q) |->
                                      ins.q[ins.body[i].q[t] + 1]]]]

RECURSIVE Exec(_, _, _, _)
RECURSIVE Apply(_, _, _, _)
Apply(ins, s, nm, at) ==
    LET set(psi) == {[s EXCEPT !.psi = psi]}
        ideal ==
            CASE ins.name = "h" -> set(GateH(s.psi, ins.q[1]))
              [] ins.name = "x" -> set(GateX(s.psi, ins.q[1]))
              [] ins.name = "y" -> set(GateY(s.psi, ins.q[1]))
              [] ins.name = "z" -> set(GateZ(s.psi, ins.q[1]))
              [] ins.name = "cx" -> set(GateCX(s.psi, ins.q[1], ins.q[2]))
              [] ins.name = "cz" -> set(GateCZ(s.psi, ins.q[1], ins.q[2]))
              [] ins.name \in {"id", "barrier"} -> {s}
              [] ins.name = "measure" ->
                    {[s EXCEPT !.psi = Project(s.psi, ins.q[1], v),
                               !.clbits[ins.c[1]] = v] :
                        v \in Outcomes(s.psi, ins.q[1])}
              [] ins.name = "if_else" ->
                    IF CondHolds(ins.cond, s.clbits)
                    THEN Exec(ins.body, {s}, nm, at)
                    ELSE {s}
              [] ins.name = "state_preparation" ->
                    {[s EXCEPT !.psi = r] :
                        r \in IF ins.inv THEN Unprepare(s.psi, ins.q, ins.amps)
                                         ELSE Prepare(s.psi, ins.q, ins.amps)}
              [] OTHER -> Exec(Placed(ins), {s}, nm, at)
    IN  IF ins.name \in nm.instructions
        THEN {[t EXCEPT !.psi = Pauli(t.psi, P, ins.q[1]),
                        !.noise = Append(t.noise, <<at, ins.q[1], P>>)] :
                 t \in ideal, P \in Draws(nm)}
        ELSE ideal

Exec(prog, S, nm, at) ==
    IF prog = <<>> THEN S
    ELSE Exec(Tail(prog), UNION {Apply(Head(prog), s, nm, at) : s \in S}, nm, at)

Fresh(nq, nc) ==
    [psi |-> ZeroState(nq), clbits |-> [c \in 0 .. nc - 1 |-> 0], noise |-> <<>>]

(***************************************************************************)
(* Method dispatch on the code object passed as `ecc`.                     *)
(***************************************************************************)
get_logical_0_preparer(self) ==
    IF self.cls = "Five_Qubit_QECC" THEN Five_get_logical_0_preparer(self)
    ELSE Shor_get_logical_0_preparer(self)

get_logical_X(self) ==
    IF self.cls = "Five_Qubit_QECC" THEN Five_get_logical_X(self)
    ELSE Shor_get_logical_X(self)

get_error_corrector(self) ==
    IF self.cls = "Five_Qubit_QECC" THEN Five_get_error_corrector(self)
    ELSE Shor_get_error_corrector(self)

\* Shor_QECC defines no get_logical_0_components: the call raises
HasComponents(self) == self.cls = "Five_Qubit_QECC"

(***************************************************************************)
(* test_QECC_random_Pauli_errors: construction of the circuit.             *)
(* Arguments: p is [list, v] (v the values, one for a scalar),             *)
(* error_locations is [all, idx].                                          *)
(***************************************************************************)
\* qubits_physical[error_locations] raises when an index is out of range
LocationsInRange(cfg, ecc) ==
    cfg.error_locations.all
    \/ \A i \in 1 .. Len(cfg.error_locations.idx) :
          cfg.error_locations.idx[i] < ecc.num_physical_qubits

\* lines 65-68: the identity gates that carry the noise
NoiseCarriers(cfg, qubits_physical) ==
    IF cfg.error_locations.all THEN Each("id", qubits_physical)
    ELSE Each("id", [i \in 1 .. Len(cfg.error_locations.idx) |->
                        qubits_physical[cfg.error_locations.idx[i] + 1]])

BuildCircuit(cfg, ecc0) ==
    LET n == ecc0.num_physical_qubits
        m == ecc0.num_syndromes
        qubits_physical == Register(0, n)
        qubit_measurements == Register(m, n)
        prep == get_logical_0_preparer(ecc0)
        flip == IF cfg.logical_state = 1 THEN get_logical_X(prep.self)
                ELSE [ret |-> <<>>, self |-> prep.self]
        carriers == NoiseCarriers(cfg, qubits_physical)
        corr == get_error_corrector(flip.self)
        unflip == IF cfg.measurement_type = "0s" /\ cfg.logical_state = 1
                  THEN get_logical_X(corr.self)
                  ELSE [ret |-> <<>>, self |-> corr.self]
        unprep == IF cfg.measurement_type = "0s"
                  THEN get_logical_0_preparer(unflip.self)
                  ELSE [ret |-> <<>>, self |-> unflip.self]
    IN  [ret |->
            <<prep.ret>>
            \o (IF cfg.logical_state = 1 THEN <<flip.ret>> ELSE <<>>)
            \o carriers
            \o corr.ret
            \o (IF cfg.measurement_type = "0s" /\ cfg.logical_state = 1
                THEN <<unflip.ret>> ELSE <<>>)
            \o (IF cfg.measurement_type = "0s" THEN <<Inverse(unprep.ret)>> ELSE <<>>)
            \o MeasureEach(qubits_physical, qubit_measurements),
         self |-> unprep.self]

(***************************************************************************)
(* Results of a run: counts maps the observed classical outcome, written   *)
(* as the backend writes it (registers in reverse order of declaration,    *)
(* separated by a blank, highest bit first), to its number of shots.       *)
(***************************************************************************)
Char(bit) == IF bit = 1 THEN "1" ELSE "0"

KeyOf(clbits, ecc) ==
    LET n == ecc.num_physical_qubits
        m == ecc.num_syndromes
    IN  [t \in 1 .. n |-> Char(clbits[m + n - t])]
        \o <<" ">>
        \o [t \in 1 .. m |-> Char(clbits[m - t])]

Tally(counts, key) ==
    IF key \in DOMAIN counts THEN [counts EXCEPT ![key] = @ + 1]
    ELSE [k \in DOMAIN counts \cup {key} |-> IF k = key THEN 1 ELSE counts[k]]

\* state[:ecc.num_physical_qubits]
Prefix(state, n) == SubSeq(state, 1, IF n < Len(state) THEN n ELSE Len(state))

Member(x, list) == \E i \in 1 .. Len(list) : list[i] = x

\* measurement_type == '0s': the shots whose physical bits are all zero
CountZeros(counts, ecc) ==
    LET n == ecc.num_physical_qubits
        zeros == [t \in 1 .. n |-> "0"]
        hit == {state \in DOMAIN counts : Prefix(state, n) = zeros}
    IN  SumNat(hit, [state \in hit |-> counts[state]])

\* otherwise: count_correct[0] the shots on a component of logical 0,
\* count_correct[1] the others; get_logical_0_components is called once for
\* every observed outcome
RECURSIVE CountLogical(_, _, _, _)
CountLogical(todo, counts, self, count_correct) ==
    IF todo = {} THEN [ret |-> count_correct, self |-> self]
    ELSE LET state == CHOOSE k \in todo : TRUE
             comps == Five_get_logical_0_components(self)
             side == IF Member(Prefix(state, self.num_physical_qubits), comps.ret)
                     THEN 1 ELSE 2
         IN  CountLogical(todo \ {state}, counts, comps.self,
                 [count_correct EXCEPT ![side] = @ + counts[state]])

Frac(num, den) == [num |-> num, den |-> den]

(***************************************************************************)
(* Inputs of a call.                                                       *)
(***************************************************************************)
\* bounds of the explored inputs
MaxTrials == 1

MaxPList == 2

MaxLocs == 2

\* noise strengths in units of 1/PDen: below the range, none, generic, the
\* upper end 1/3 (no identity term left), above the range
PVals == {0 - 3, 0, 3, 10, 15}

RECURSIVE SeqsUpTo(_, _)
SeqsUpTo(S, k) ==
    IF k = 0 THEN {<<>>}
    ELSE LET shorter == SeqsUpTo(S, k - 1)
         IN  shorter \cup {Append(t, x) : t \in {u \in shorter : Len(u) = k - 1}, x \in S}

\* the values a list of strengths is made of: invalid, none, the upper end
PListVals == {0 - 3, 0, 10}

PArgs ==
    {[list |-> FALSE, v |-> <<x>>] : x \in PVals}
    \cup {[list |-> TRUE, v |-> t] : t \in SeqsUpTo(PListVals, MaxPList)}

\* 'all', or a list of qubit indices: every single index (the first one
\* past the register included), and the longer lists over the first qubits
LocArgs(n) ==
    {[all |-> TRUE, idx |-> <<>>]}
    \cup {[all |-> FALSE, idx |-> <<j>>] : j \in 0 .. n}
    \cup {[all |-> FALSE, idx |-> t] :
            t \in {u \in SeqsUpTo(0 .. MaxLocs - 1, MaxLocs) : Len(u) >= 2}}

\* the two supported names and one that is not
MeasurementTypes == {"logical", "0s", "raw"}

Noisy(x) == 0 < x /\ 3 * x <= PDen

\* number of noise carriers that can draw an error during the call
NoisyCarriers(cfg, n) ==
    IF \E i \in 1 .. Len(cfg.p.v) : Noisy(cfg.p.v[i])
    THEN IF cfg.error_locations.all THEN n ELSE Len(cfg.error_locations.idx)
    ELSE 0

\* a sweep over a list of strengths is explored at these placements only
SweepLocs(n) ==
    {[all |-> TRUE, idx |-> <<>>], [all |-> FALSE, idx |-> <<0>>],
     [all |-> FALSE, idx |-> <<n>>], [all |-> FALSE, idx |-> <<0, 1>>]}

Args(ecc, n) ==
    {cfg \in [p : PArgs, logical_state : {0, 1}, trials : 0 .. MaxTrials,
              ecc : {ecc}, measurement_type : MeasurementTypes,
              error_locations : LocArgs(n)] :
        /\ NoisyCarriers(cfg, n) <= MaxLocs
        /\ cfg.p.list => cfg.error_locations \in SweepLocs(n)}

NoArgs ==
    [p |-> [list |-> FALSE, v |-> <<>>], logical_state |-> 0, trials |-> 0,
     ecc |-> "", measurement_type |-> "",
     error_locations |-> [all |-> TRUE, idx |-> <<>>]]

NoReturn == [kind |-> "none", val |-> <<>>, error |-> ""]

Raise(error) == [kind |-> "raise", val |-> <<>>, error |-> error]

NoCounts == [k \in {} |-> 0]

(***************************************************************************)
(* The harness as a state machine.                                         *)
(***************************************************************************)
VARIABLES
    objects,          \* the code objects: the default ecc and a Shor_QECC
    pc,               \* position in test_QECC_random_Pauli_errors
    args,             \* arguments of the call in progress
    qecc_qc,          \* the circuit built
    pList,
    fracCorrectList,
    done,             \* number of entries of pList already simulated
    noise_model,
    shot,             \* machine state of the shot in progress
    ip,               \* next instruction of qecc_qc in that shot
    shots,            \* shots finished in the run in progress
    counts,
    runs,             \* log: noise strength and success fraction of every run started
    result            \* what the call returned or raised

vars == <<objects, pc, args, qecc_qc, pList, fracCorrectList, done, noise_model,
          shot, ip, shots, counts, runs, result>>

local == <<qecc_qc, pList, fracCorrectList, done, noise_model, shot, ip, shots,
           counts, runs>>

ecc == objects[args.ecc]

NoShot == [psi |-> <<>>, clbits |-> <<>>, noise |-> <<>>]

FreshShot(code) ==
    Fresh(code.num_physical_qubits + code.num_syndromes,
          code.num_syndromes + code.num_physical_qubits)

Init ==
    /\ objects = [default |-> Five_Qubit_QECC, shor |-> Shor_QECC]
    /\ pc = "idle"
    /\ args = NoArgs
    /\ qecc_qc = <<>>
    /\ pList = <<>>
    /\ fracCorrectList = <<>>
    /\ done = 0
    /\ noise_model = NoNoise
    /\ shot = NoShot
    /\ ip = 0
    /\ shots = 0
    /\ counts = NoCounts
    /\ runs = <<>>
    /\ result = NoReturn

\* a call of test_QECC_random_Pauli_errors
Call ==
    /\ pc = "idle"
    /\ \E name \in DOMAIN objects :
          \E cfg \in Args(name, objects[name].num_physical_qubits) :
             args' = cfg
    /\ pc' = "build"
    /\ UNCHANGED <<objects, local, result>>

\* lines 52-87: the circuit, pList, fracCorrectList
Build ==
    /\ pc = "build"
    /\ LocationsInRange(args, ecc)
    /\ LET built == BuildCircuit(args, ecc)
       IN  /\ qecc_qc' = built.ret
           /\ objects' = [objects EXCEPT ![args.ecc] = built.self]
    /\ pList' = args.p.v
    /\ fracCorrectList' = <<>>
    /\ pc' = "loop"
    /\ UNCHANGED <<args, done, noise_model, shot, ip, shots, counts, runs, result>>

\* line 68 raises on an index outside the register
BuildFault ==
    /\ pc = "build"
    /\ ~LocationsInRange(args, ecc)
    /\ LET prep == get_logical_0_preparer(ecc)
           flip == IF args.logical_state = 1 THEN get_logical_X(prep.self) ELSE prep
       IN  objects' = [objects EXCEPT ![args.ecc] = flip.self]
    /\ result' = Raise("CircuitError")
    /\ pc' = "raised"
    /\ UNCHANGED <<args, local>>

\* faulty variant: the noise model is built for the first value only
BeginRun_StaleNoise ==
    /\ pc = "loop"
    /\ done < Len(pList)
    /\ ValidError(pauli_error(pList[1]))
    /\ noise_model' = NoiseModel(pList[1])
    /\ runs' = Append(runs, [prob |-> pList[1], frac |-> <<>>])
    /\ shots' = 0
    /\ counts' = NoCounts
    /\ IF args.trials > 0
       THEN shot' = FreshShot(ecc) /\ ip' = 1 /\ pc' = "shots"
       ELSE shot' = NoShot /\ ip' = 0 /\ pc' = "empty"
    /\ UNCHANGED <<objects, args, qecc_qc, pList, fracCorrectList, done, result>>

\* lines 89-100: the noise model of the next value and the start of its run
BeginRun ==
    /\ pc = "loop"
    /\ done < Len(pList)
    /\ ValidError(pauli_error(pList[done + 1]))
    /\ noise_model' = NoiseModel(pList[done + 1])
    /\ runs' = Append(runs, [prob |-> pList[done + 1], frac |-> <<>>])
    /\ shots' = 0
    /\ counts' = NoCounts
    /\ IF args.trials > 0
       THEN shot' = FreshShot(ecc) /\ ip' = 1 /\ pc' = "shots"
       ELSE shot' = NoShot /\ ip' = 0 /\ pc' = "empty"
    /\ UNCHANGED <<objects, args, qecc_qc, pList, fracCorrectList, done, result>>

\* line 93: pauli_error raises on a negative probability
NoiseFault ==
    /\ pc = "loop"
    /\ done < Len(pList)
    /\ ~ValidError(pauli_error(pList[done + 1]))
    /\ result' = Raise("NoiseError")
    /\ pc' = "raised"
    /\ UNCHANGED <<objects, args, local>>

\* a run of no shots: the backend either refuses it or returns no counts
EmptyRun ==
    /\ pc = "empty"
    /\ \/ /\ result' = Raise("AerError")
          /\ pc' = "raised"
       \/ /\ pc' = "score"
          /\ UNCHANGED result
    /\ UNCHANGED <<objects, args, local>>

\* one instruction of one shot
Step ==
    /\ pc = "shots"
    /\ ip <= Len(qecc_qc)
    /\ \E next \in Apply(qecc_qc[ip], shot, noise_model, ip) : shot' = next
    /\ ip' = ip + 1
    /\ UNCHANGED <<objects, pc, args, qecc_qc, pList, fracCorrectList, done,
                   noise_model, shots, counts, runs, result>>

\* the end of a shot: its outcome is counted
EndShot ==
    /\ pc = "shots"
    /\ ip > Len(qecc_qc)
    /\ counts' = Tally(counts, KeyOf(shot.clbits, ecc))
    /\ shots' = shots + 1
    /\ IF shots + 1 < args.trials
       THEN shot' = FreshShot(ecc) /\ ip' = 1 /\ pc' = "shots"
       ELSE shot' = NoShot /\ ip' = 0 /\ pc' = "score"
    /\ UNCHANGED <<objects, args, qecc_qc, pList, fracCorrectList, done,
                   noise_model, runs, result>>

UsesZeros == args.measurement_type = "0s"

\* faulty variant: the components are fetched before the branch on the mode
ScoreRaises_Eager ==
    IF counts # NoCounts /\ ~HasComponents(ecc)
    THEN "AttributeError"
    ELSE IF args.trials = 0 THEN "ZeroDivisionError" ELSE ""

\* lines 103-123 raise: no get_logical_0_components, or a division by zero
ScoreRaises ==
    IF ~UsesZeros /\ counts # NoCounts /\ ~HasComponents(ecc)
    THEN "AttributeError"
    ELSE IF args.trials = 0 THEN "ZeroDivisionError" ELSE ""

\* faulty variant: count_correct[0] is reported whatever the logical state
Scored_IgnoresState ==
    IF UsesZeros
    THEN [ret |-> Frac(CountZeros(counts, ecc), args.trials), self |-> ecc]
    ELSE LET tally == CountLogical(DOMAIN counts, counts, ecc, <<0, 0>>)
         IN  [ret |-> Frac(tally.ret[1], args.trials), self |-> tally.self]

\* lines 103-123: the success fraction of the run
Scored ==
    IF UsesZeros
    THEN [ret |-> Frac(CountZeros(counts, ecc), args.trials), self |-> ecc]
    ELSE LET tally == CountLogical(DOMAIN counts, counts, ecc, <<0, 0>>)
         IN  [ret |-> Frac(tally.ret[args.logical_state + 1], args.trials),
              self |-> tally.self]

Score ==
    /\ pc = "score"
    /\ ScoreRaises = ""
    /\ fracCorrectList' = Append(fracCorrectList, Scored.ret)
    /\ objects' = [objects EXCEPT ![args.ecc] = Scored.self]
    /\ runs' = [runs EXCEPT ![Len(runs)].frac = <<Scored.ret>>]
    /\ done' = done + 1
    \* counts is not read again before line 103 assigns it anew
    /\ counts' = NoCounts
    /\ shots' = 0
    /\ pc' = "loop"
    /\ UNCHANGED <<args, qecc_qc, pList, noise_model, shot, ip, result>>

ScoreFault ==
    /\ pc = "score"
    /\ ScoreRaises # ""
    /\ result' = Raise(ScoreRaises)
    /\ pc' = "raised"
    /\ UNCHANGED <<objects, args, local>>

\* lines 125-128
Return ==
    /\ pc = "loop"
    /\ done = Len(pList)
    /\ result' = IF args.p.list
                 THEN [kind |-> "list", val |-> fracCorrectList, error |-> ""]
                 ELSE [kind |-> "scalar", val |-> <<fracCorrectList[1]>>, error |-> ""]
    /\ pc' = "returned"
    /\ UNCHANGED <<objects, args, local>>

\* the caller goes on; the code objects live on
Release ==
    /\ pc \in {"returned", "raised"}
    /\ pc' = "idle"
    /\ args' = NoArgs
    /\ qecc_qc' = <<>>
    /\ pList' = <<>>
    /\ fracCorrectList' = <<>>
    /\ done' = 0
    /\ noise_model' = NoNoise
    /\ shot' = NoShot
    /\ ip' = 0
    /\ shots' = 0
    /\ counts' = NoCounts
    /\ runs' = <<>>
    /\ result' = NoReturn
    /\ UNCHANGED objects

Next ==
    \/ Call
    \/ Build
    \/ BuildFault
    \/ BeginRun
    \/ NoiseFault
    \/ EmptyRun
    \/ Step
    \/ EndShot
    \/ Score
    \/ ScoreFault
    \/ Return
    \/ Release

Spec == Init /\ [][Next]_vars

(***************************************************************************)
(* Vocabulary of the properties.                                           *)
(***************************************************************************)
IsIf(ins) == ins.name = "if_else"

IsChecker(ins) == ins.name \in {"5-Qubit Error Checker", "Shor Error Checker"}

\* position of the last conditional correction of the circuit (0: none)
LastIfAt(circ) ==
    IF \E i \in 1 .. Len(circ) : IsIf(circ[i])
    THEN CHOOSE i \in 1 .. Len(circ) :
            IsIf(circ[i]) /\ \A j \in i + 1 .. Len(circ) : ~IsIf(circ[j])
    ELSE 0

CheckerAt(circ) == CHOOSE i \in 1 .. Len(circ) : IsChecker(circ[i])

\* a shot stands right after the checker gate / right after the corrector
Checked == pc = "shots" /\ ip = CheckerAt(qecc_qc) + 1

Corrected == pc = "shots" /\ ip = LastIfAt(qecc_qc) + 1

Measured == pc = "shots" /\ ip = Len(qecc_qc) + 1

\* the draws of the noise channel that are not the identity
Errors(log) == SelectSeq(log, LAMBDA e : e[3] # "I")

\* the gates the conditional blocks of prog apply under the classical bits
RECURSIVE Fired(_, _)
Fired(prog, clbits) ==
    IF prog = <<>> THEN <<>>
    ELSE LET h == Head(prog)
             rest == Fired(Tail(prog), clbits)
         IN  IF IsIf(h)
             THEN (IF CondHolds(h.cond, clbits) THEN Fired(h.body, clbits) ELSE <<>>)
                  \o rest
             ELSE <<h>> \o rest

Corrections == Fired(SelectSeq(qecc_qc, IsIf), shot.clbits)

Syndrome == RegisterValue(shot.clbits, ecc.syndromes)

GateName(P) == CASE P = "X" -> "x" [] P = "Y" -> "y" [] P = "Z" -> "z" [] OTHER -> "id"

\* the state of the first n qubits, the others being in one basis state
CodeVec(psi, n) ==
    LET cut(b) == [q \in 0 .. n - 1 |-> b[q]]
    IN  [c \in {cut(b) : b \in DOMAIN psi} |->
            psi[CHOOSE b \in DOMAIN psi : cut(b) = c]]

OneAncillaState(psi, n) ==
    \A a, b \in DOMAIN psi : \A q \in DOMAIN a : q >= n => a[q] = b[q]

\* the state get_logical_0_preparer (and get_logical_X) leave the qubits in
Encoded(code, ls) ==
    LET prog == <<get_logical_0_preparer(code).ret>>
                \o (IF ls = 1 THEN <<get_logical_X(code).ret>> ELSE <<>>)
    IN  (CHOOSE s \in Exec(prog, {FreshShot(code)}, NoNoise, 0) : TRUE).psi

Codeword(code, ls) == CodeVec(Encoded(code, ls), code.num_physical_qubits)

PhaseVec(vec, k) == [c \in DOMAIN vec |-> CPhase(vec[c], k)]

\* check i of the five-qubit code is X_i Z_(i+1) Z_(i+2) X_(i+3); bit i of
\* the syndrome of a Pauli P on qubit j says whether the two anticommute
FiveAnticommutes(i, P, j) ==
    LET onX == j \in {i % 5, (i + 3) % 5}
        onZ == j \in {(i + 1) % 5, (i + 2) % 5}
    IN  CASE P = "X" -> onZ
          [] P = "Z" -> onX
          [] OTHER -> onX \/ onZ

FiveSyndromeOf(P, j) ==
    SumNat(0 .. 3, [i \in 0 .. 3 |-> IF FiveAnticommutes(i, P, j) THEN Pow2(i) ELSE 0])

(***************************************************************************)
(* C1: five-qubit code, one error.  When exactly one Pauli P has struck    *)
(* qubit j of the codeword (logical 0 or 1), the syndrome is the one of    *)
(* the checks X_i Z_(i+1) Z_(i+2) X_(i+3), the corrector applies exactly   *)
(* one gate, P on qubit j, and the physical qubits are back in the         *)
(* codeword.                                                               *)
(***************************************************************************)
C1_FiveCorrectsOneError ==
    (Corrected /\ ecc.cls = "Five_Qubit_QECC" /\ Len(Errors(shot.noise)) = 1) =>
        LET e == Errors(shot.noise)[1]
        IN  /\ Syndrome = FiveSyndromeOf(e[3], e[2])
            /\ Corrections = <<Ins(GateName(e[3]), <<e[2]>>, <<>>)>>
            /\ OneAncillaState(shot.psi, 5)
            /\ CodeVec(shot.psi, 5) = Codeword(ecc, args.logical_state)

C1_Witness ==
    /\ Corrected
    /\ ecc.cls = "Five_Qubit_QECC"
    /\ args.logical_state = 1
    /\ Errors(shot.noise) = <<shot.noise[1]>>
    /\ shot.noise[1][2] = 3
    /\ shot.noise[1][3] = "Y"
    /\ Corrections = <<Ins("y", <<3>>, <<>>)>>
    /\ CodeVec(shot.psi, 5) = Codeword(ecc, 1)

(***************************************************************************)
(* C2: nine-qubit code, one error.  When exactly one Pauli P has struck    *)
(* one qubit of the codeword (logical 0 or 1), the state after the         *)
(* corrector is the codeword again, up to a global phase that depends on   *)
(* P alone (1 for X and Z, -i for Y): error times correction is a scalar   *)
(* on the code space.                                                      *)
(***************************************************************************)
C2_ShorCorrectsOneError ==
    (Corrected /\ ecc.cls = "Shor_QECC" /\ Len(Errors(shot.noise)) = 1) =>
        LET e == Errors(shot.noise)[1]
        IN  /\ OneAncillaState(shot.psi, 9)
            /\ CodeVec(shot.psi, 9) =
                  PhaseVec(Codeword(ecc, args.logical_state),
                           IF e[3] = "Y" THEN 3 ELSE 0)

C2_Witness ==
    /\ Corrected
    /\ ecc.cls = "Shor_QECC"
    /\ args.logical_state = 1
    /\ Errors(shot.noise) = <<shot.noise[1]>>
    /\ shot.noise[1][2] = 4
    /\ shot.noise[1][3] = "Y"
    /\ Len(Corrections) = 4
    /\ CodeVec(shot.psi, 9) = PhaseVec(Codeword(ecc, 1), 3)

(***************************************************************************)
(* C3: no noise.  In a run with p = 0, for both codes and both logical     *)
(* states, the checker gate leaves the encoded state as it is, the         *)
(* syndrome is zero, no correction is applied, and with                    *)
(* measurement_type '0s' every shot measures the all-zero string, so the   *)
(* fraction of the run is trials / trials.                                 *)
(***************************************************************************)
C3_NoNoiseNoChange ==
    LET zero == noise_model = NoiseModel(0)
        n == ecc.num_physical_qubits
    IN  /\ (Checked /\ zero) => shot.psi = Encoded(ecc, args.logical_state)
        /\ (Corrected /\ zero) =>
              /\ Syndrome = 0
              /\ Corrections = <<>>
              /\ shot.psi = Encoded(ecc, args.logical_state)
        /\ (Measured /\ zero /\ UsesZeros) =>
              Prefix(KeyOf(shot.clbits, ecc), n) = [t \in 1 .. n |-> "0"]
        /\ (pc \in {"loop", "returned"} /\ UsesZeros) =>
              \A k \in 1 .. Len(runs) :
                 runs[k].prob = 0 => runs[k].frac = <<Frac(args.trials, args.trials)>>

C3_Witness ==
    /\ pc = "returned"
    /\ UsesZeros
    /\ ecc.cls = "Shor_QECC"
    /\ args.logical_state = 1
    /\ args.error_locations.all
    /\ args.trials = 1
    /\ result = [kind |-> "scalar", val |-> <<Frac(1, 1)>>, error |-> ""]
    /\ runs[1].prob = 0

(***************************************************************************)
(* C4: the syndrome table of the five-qubit corrector.  The 15 integers    *)
(* of get_error_corrector are pairwise distinct and are the values 1..15;  *)
(* whatever syndrome a shot measures, one correction fires when it is not  *)
(* zero and none when it is zero.                                          *)
(***************************************************************************)
FiveTable ==
    [t \in {"X", "Z", "Y"} \X (0 .. 4) |->
        CASE t[1] = "X" -> Five_syndrome_X(t[2])
          [] t[1] = "Z" -> Five_syndrome_Z(t[2])
          [] OTHER -> Five_syndrome_Y(t[2])]

C4_FiveSyndromeTable ==
    /\ \A t, u \in DOMAIN FiveTable : FiveTable[t] = FiveTable[u] => t = u
    /\ {FiveTable[t] : t \in DOMAIN FiveTable} = 1 .. 15
    /\ (Corrected /\ ecc.cls = "Five_Qubit_QECC") =>
          Len(Corrections) = IF Syndrome = 0 THEN 0 ELSE 1

C4_Witness ==
    /\ Corrected
    /\ ecc.cls = "Five_Qubit_QECC"
    /\ Syndrome = 15
    /\ Corrections = <<Ins("y", <<3>>, <<>>)>>

(***************************************************************************)
(* Configurations.                                                         *)
(***************************************************************************)
Called == pc # "idle"

\* a noise strength within [0, 1/3]
InRange(x) == 0 <= x /\ 3 * x <= PDen

ValidConfig(cfg, code) ==
    /\ \A i \in 1 .. Len(cfg.p.v) : InRange(cfg.p.v[i])
    /\ cfg.trials > 0
    /\ cfg.logical_state \in {0, 1}
    /\ cfg.measurement_type \in {"logical", "0s"}
    /\ \/ cfg.error_locations.all
       \/ \A i \in 1 .. Len(cfg.error_locations.idx) :
             cfg.error_locations.idx[i] \in 0 .. code.num_physical_qubits - 1

WellFormed(frac) == 0 <= frac.num /\ frac.num <= frac.den /\ 0 < frac.den

ReturnsFractions ==
    /\ pc # "raised"
    /\ \A k \in 1 .. Len(fracCorrectList) : WellFormed(fracCorrectList[k])
    /\ pc = "returned" =>
          /\ result.kind \in {"scalar", "list"}
          /\ \A k \in 1 .. Len(result.val) : WellFormed(result.val[k])

(***************************************************************************)
(* C5: an invalid configuration (a p outside [0, 1/3], a non-positive      *)
(* trials, an index of error_locations outside the physical qubits, an     *)
(* unsupported measurement_type) starts no simulator run and returns no    *)
(* fraction.                                                               *)
(***************************************************************************)
C5_InvalidRejectedBeforeAnyRun ==
    (Called /\ ~ValidConfig(args, ecc)) =>
        /\ runs = <<>>
        /\ result.kind \notin {"scalar", "list"}

(***************************************************************************)
(* C6: a valid configuration returns a fraction, or a list of fractions,   *)
(* each in [0, 1], and never ends in a fault -- provided the scoring can   *)
(* be done: measurement_type '0s', or a code that has                      *)
(* get_logical_0_components (the five-qubit code).                         *)
(***************************************************************************)
C6_ValidScorableReturnsFractions ==
    (Called /\ ValidConfig(args, ecc) /\ (UsesZeros \/ HasComponents(ecc))) =>
        ReturnsFractions

C6_Witness ==
    /\ pc = "returned"
    /\ ValidConfig(args, ecc)
    /\ ecc.cls = "Shor_QECC"
    /\ UsesZeros
    /\ args.logical_state = 1
    /\ args.p = [list |-> TRUE, v |-> <<0, 10>>]
    /\ args.error_locations = [all |-> FALSE, idx |-> <<0, 1>>]
    /\ result = [kind |-> "list", val |-> <<Frac(1, 1), Frac(1, 1)>>, error |-> ""]

\* C6 as stated: every valid configuration, whatever the code and the mode
C6_EveryValidReturnsFractions ==
    (Called /\ ValidConfig(args, ecc)) => ReturnsFractions

(***************************************************************************)
(* C7: a scalar p returns one scalar fraction; a list of n values returns  *)
(* a list of n fractions, the k-th being the fraction of the run made      *)
(* with the k-th value; every run is made under the noise model built      *)
(* from its own value.                                                     *)
(***************************************************************************)
C7_OutputShapeAndOrder ==
    /\ pc = "returned" =>
          /\ result.kind = IF args.p.list THEN "list" ELSE "scalar"
          /\ Len(result.val) = Len(args.p.v)
          /\ Len(runs) = Len(args.p.v)
          /\ \A k \in 1 .. Len(runs) :
                /\ runs[k].prob = args.p.v[k]
                /\ runs[k].frac = <<result.val[k]>>
    /\ pc \in {"shots", "empty", "score"} =>
          /\ Len(runs) = done + 1
          /\ runs[done + 1].prob = args.p.v[done + 1]
          /\ noise_model = NoiseModel(args.p.v[done + 1])

C7_Witness ==
    /\ pc = "returned"
    /\ ecc.cls = "Five_Qubit_QECC"
    /\ args.p = [list |-> TRUE, v |-> <<10, 0>>]
    /\ result = [kind |-> "list", val |-> <<Frac(0, 1), Frac(1, 1)>>, error |-> ""]
    /\ runs = <<[prob |-> 10, frac |-> <<Frac(0, 1)>>],
                [prob |-> 0, frac |-> <<Frac(1, 1)>>]>>

(***************************************************************************)
(* C8: 'logical' scoring with the five-qubit code.  The positive and the   *)
(* negative components are disjoint, there are 16 of them, and each of     *)
(* the 32 strings is either a component or the bit-flip of one, never      *)
(* both; the shots counted as successes are those measuring a component    *)
(* (logical_state 0), or the bit-flip of a component (logical_state 1).    *)
(***************************************************************************)
FlipAll(str) == [t \in 1 .. Len(str) |-> IF str[t] = "0" THEN "1" ELSE "0"]

Components == Five_get_logical_0_components(ecc).ret

\* the observed outcomes that belong to the logical state ls
Matching(ls) ==
    {k \in DOMAIN counts :
        LET str == Prefix(k, 5)
        IN  Member(IF ls = 0 THEN str ELSE FlipAll(str), Components)}

C8_LogicalScoring ==
    (Called /\ ecc.cls = "Five_Qubit_QECC") =>
        /\ \A i \in 1 .. Len(ecc.logical0_coef_pos) :
              ~Member(ecc.logical0_coef_pos[i], ecc.logical0_coef_neg)
        /\ Len(ecc.logical0_coef_pos) = 6
        /\ Len(ecc.logical0_coef_neg) = 10
        /\ Cardinality({Components[i] : i \in 1 .. Len(Components)}) = 16
        /\ \A str \in [1 .. 5 -> {"0", "1"}] :
              Member(str, Components) <=> ~Member(FlipAll(str), Components)
        /\ (pc = "score" /\ ~UsesZeros /\ ScoreRaises = "") =>
              LET hit == Matching(args.logical_state)
              IN  Scored.ret.num = SumNat(hit, [k \in hit |-> counts[k]])

C8_Witness ==
    /\ pc = "score"
    /\ ecc.cls = "Five_Qubit_QECC"
    /\ args.measurement_type = "logical"
    /\ args.logical_state = 1
    /\ args.trials = 1
    /\ Matching(1) = {}
    /\ Matching(0) = DOMAIN counts
    /\ Scored.ret = Frac(0, 1)

(***************************************************************************)
(* C9: the noise carriers.  Every targeted physical qubit (all of them     *)
(* for 'all', the listed ones otherwise) carries exactly one identity      *)
(* gate, placed after the preparation and the optional logical X and       *)
(* before the corrector; nothing else is an identity gate, and every draw  *)
(* of the noise channel is made at one of these gates, on its qubit.       *)
(***************************************************************************)
RECURSIVE HasId(_)
HasId(prog) ==
    \E i \in 1 .. Len(prog) : prog[i].name = "id" \/ HasId(prog[i].body)

Carriers == {i \in 1 .. Len(qecc_qc) : qecc_qc[i].name = "id"}

Targets ==
    IF args.error_locations.all THEN 0 .. ecc.num_physical_qubits - 1
    ELSE {args.error_locations.idx[i] : i \in 1 .. Len(args.error_locations.idx)}

C9_NoiseOncePerTargetedQubit ==
    (pc \in {"loop", "shots", "empty", "score", "returned"}) =>
        /\ \A q \in Targets :
              Cardinality({i \in Carriers : qecc_qc[i].q = <<q>>}) = 1
        /\ \A i \in Carriers :
              /\ qecc_qc[i].q[1] \in Targets
              /\ 1 + args.logical_state < i
              /\ i < CheckerAt(qecc_qc)
        /\ \A i \in 1 .. Len(qecc_qc) : ~HasId(qecc_qc[i].body)
        /\ \A k \in 1 .. Len(shot.noise) :
              /\ shot.noise[k][1] \in Carriers
              /\ qecc_qc[shot.noise[k][1]].q = <<shot.noise[k][2]>>

(***************************************************************************)
(* C10: the code objects are never modified.  Whatever calls were made,    *)
(* both instances hold the fields they were constructed with, and the      *)
(* circuit of the call in progress is the one the builders give on a       *)
(* newly constructed instance.                                             *)
(***************************************************************************)
Constructed(name) == IF name = "shor" THEN Shor_QECC ELSE Five_Qubit_QECC

C10_InstancesNeverMutated ==
    /\ \A name \in DOMAIN objects : objects[name] = Constructed(name)
    /\ (pc = "loop" /\ done = 0) =>
          qecc_qc = BuildCircuit(args, Constructed(args.ecc)).ret

C10_Witness ==
    /\ pc = "returned"
    /\ args.ecc = "default"
    /\ args.measurement_type = "logical"
    /\ args.logical_state = 1
    /\ Len(runs) = 2
    /\ objects["default"] = Five_Qubit_QECC

====
